---- MODULE Spec2Model ----
(***************************************************************************)
(* Huffman coding and empirical entropy of src/Huffman coding/             *)
(* huffman_entropy.py, as a state machine: one Python process that calls   *)
(* the module's functions one after the other.                             *)
(*                                                                         *)
(* A text is a sequence of characters.  A symbol is a Python str, modelled *)
(* as a sequence of characters (length 1 for a character, 2 for a pair).   *)
(* A code is a Python str of digits, modelled as a sequence over {0, 1}.   *)
(* Node objects live in `tree`, a store indexed by creation order; a Node  *)
(* reference is its index, and the index is also the order in which the    *)
(* nodes were pushed on the heap.                                          *)
(*                                                                         *)
(* Floating-point results are kept exact: an average is the fraction       *)
(* num/den, an entropy H over m observations is the pair (m^m, prod c^c),  *)
(* for which 2^(m*H) = m^m / prod c^c.                                     *)
(*                                                                         *)
(* src/Arithmetic encoding/arithmetic_encoding.py is a script of its own,  *)
(* with its own process: SpecArith.  Its floats are kept exact too, as     *)
(* reduced fractions <<numerator, denominator>>.                           *)
(***************************************************************************)
EXTENDS Integers, Sequences, FiniteSets, TLC

\* The characters texts are made of; "_" is the padding character of line 197.
Alphabet == {"A", "B", "C", "_"}

\* Total input the process is given: each call costs 1 plus the length of its text.
MaxInput == 6

\* The characters of the strings given to arithmetic_encode: 'A', 'B', and one
\* character that is neither.
ArithAlphabet == {"A", "B", "C"}

\* Longest string given to arithmetic_encode.
MaxString == 3

\* Entries of `operations` after which the model follows a scaling loop no further.
MaxOperations == 12

\* None, for the left and right fields of a leaf and for unset locals (line 90).
None == 0

\* The huff field of a node no parent has labelled: the empty str (line 95).
EmptyHuff == -1

VARIABLES
    pc,                  \* "idle", "merge" (inside a while loop), "done" (a call returned)
    op,                  \* the function called last
    text,                \* its argument
    counter,             \* its Counter: <<symbol, count>> in insertion order
    tree,                \* the Node objects created by the call
    nodes,               \* the heap list `nodes` of Node references
    left,                \* local `left` of the while loop
    right,               \* local `right` of the while loop
    default_codes_list,  \* the list object bound to codes_list=[] at line 101
    codes,               \* the list returned by generate_*_huffman_codes
    value,               \* the number returned by calculate_*
    outcome,             \* "none", "returned", or the exception raised
    consumed,            \* input used up so far
    \* arithmetic_encoding.py
    ae_pc,               \* "idle", "for" (at the head of the for loop), "while"
                         \* (at the head of the while True loop), "done", "raised"
    input_string,        \* arithmetic_encode's arguments
    enable_scaling,
    char_index,          \* characters of input_string the for loop has taken
    cdf_A,               \* its locals
    cdf_B,
    lower_bound,
    upper_bound,
    operations

huffman_vars == <<pc, op, text, counter, tree, nodes, left, right,
                  default_codes_list, codes, value, outcome, consumed>>

arith_vars == <<ae_pc, input_string, enable_scaling, char_index, cdf_A, cdf_B,
                lower_bound, upper_bound, operations>>

vars == <<huffman_vars, arith_vars>>

----------------------------------------------------------------------------
\* Inputs

RECURSIVE TextsOfLen(_)
TextsOfLen(k) ==
    IF k = 0 THEN {<<>>}
    ELSE {Append(t, c) : t \in TextsOfLen(k - 1), c \in Alphabet}

\* the texts of each length the input allows
TextsByLen == [k \in 0..(MaxInput - 1) |-> TextsOfLen(k)]

Min(a, b) == IF a < b THEN a ELSE b

RECURSIVE Pow(_, _)
Pow(b, e) == IF e = 0 THEN 1 ELSE b * Pow(b, e - 1)

----------------------------------------------------------------------------
\* collections.Counter: counts in order of first occurrence

CounterAdd(c, s) ==
    IF \E i \in 1..Len(c) : c[i][1] = s
    THEN [i \in 1..Len(c) |-> IF c[i][1] = s THEN <<s, c[i][2] + 1>> ELSE c[i]]
    ELSE Append(c, <<s, 1>>)

RECURSIVE CounterFrom(_, _)
CounterFrom(items, c) ==
    IF items = <<>> THEN c
    ELSE CounterFrom(Tail(items), CounterAdd(c, Head(items)))

Counter(items) == CounterFrom(items, <<>>)

\* counter[symbol]: 0 for a symbol the Counter does not hold
Count(c, s) ==
    IF \E i \in 1..Len(c) : c[i][1] = s
    THEN c[CHOOSE i \in 1..Len(c) : c[i][1] = s][2]
    ELSE 0

\* iterating a str yields its characters, each a str of length 1
Chars(t) == [i \in 1..Len(t) |-> <<t[i]>>]

\* [text[i:i+step_size] for i in range(0, n, step_size)], step_size = 2
Pairs(t) ==
    [k \in 1..((Len(t) + 1) \div 2) |-> SubSeq(t, 2 * k - 1, Min(2 * k, Len(t)))]

\* if n % step_size == 1: pairs[-1] += '_'
PaddedPairs(t) ==
    LET pairs == Pairs(t)
    IN IF Len(t) % 2 = 1
       THEN [pairs EXCEPT ![Len(pairs)] = @ \o <<"_">>]
       ELSE pairs

----------------------------------------------------------------------------
\* Node and the heap of Node references (heapq over Node.__lt__)

Node(freq, symbol, l, r) ==
    [freq |-> freq, symbol |-> symbol, left |-> l, right |-> r, huff |-> EmptyHuff]

\* Node.__lt__ with the comparison turned round
lt_reversed(T, a, b) == T[a].freq > T[b].freq

\* Node.__lt__
lt(T, a, b) == T[a].freq < T[b].freq

\* heapq._siftdown(heap, startpos, pos); positions are 0-based as in Python
RECURSIVE siftdown_loop(_, _, _, _, _)
siftdown_loop(T, h, startpos, pos, newitem) ==
    IF pos > startpos
    THEN LET parentpos == (pos - 1) \div 2
             parent == h[parentpos + 1]
         IN IF lt(T, newitem, parent)
            THEN siftdown_loop(T, [h EXCEPT ![pos + 1] = parent], startpos, parentpos, newitem)
            ELSE [h EXCEPT ![pos + 1] = newitem]
    ELSE [h EXCEPT ![pos + 1] = newitem]

siftdown(T, h, startpos, pos) == siftdown_loop(T, h, startpos, pos, h[pos + 1])

\* heapq._siftup(heap, pos)
RECURSIVE siftup_loop(_, _, _, _, _)
siftup_loop(T, h, startpos, pos, newitem) ==
    LET endpos == Len(h)
        childpos == 2 * pos + 1
        rightpos == childpos + 1
    IN IF childpos < endpos
       THEN LET c == IF rightpos < endpos /\ ~lt(T, h[childpos + 1], h[rightpos + 1])
                     THEN rightpos ELSE childpos
            IN siftup_loop(T, [h EXCEPT ![pos + 1] = h[c + 1]], startpos, c, newitem)
       ELSE siftdown(T, [h EXCEPT ![pos + 1] = newitem], startpos, pos)

siftup(T, h, pos) == siftup_loop(T, h, pos, pos, h[pos + 1])

\* heapq.heappush(heap, item): the heap afterwards
heappush(T, h, item) == siftdown(T, Append(h, item), 0, Len(h))

\* a heappop that takes the first item and leaves the rest as it stands
heappop_no_sift(T, h) == <<h[1], Tail(h)>>

\* heapq.heappop(heap): <<the item returned, the heap afterwards>>
heappop(T, h) ==
    LET lastelt == h[Len(h)]
        rest == SubSeq(h, 1, Len(h) - 1)
    IN IF rest # <<>>
       THEN <<rest[1], siftup(T, [rest EXCEPT ![1] = lastelt], 0)>>
       ELSE <<lastelt, rest>>

\* for symbol in counter: heappush(nodes, Node(counter[symbol], symbol))
RECURSIVE push_leaves(_, _, _, _)
push_leaves(c, i, T, h) ==
    IF i > Len(c) THEN [tree |-> T, nodes |-> h]
    ELSE LET T2 == Append(T, Node(c[i][2], c[i][1], None, None))
         IN push_leaves(c, i + 1, T2, heappush(T2, h, Len(T2)))

\* the symbol of an internal node: left.symbol + right.symbol (line 149),
\* the tuple (left.symbol, right.symbol) in the joint function (line 211)
merged_symbol(joint, ls, rs) == IF joint THEN <<ls, rs>> ELSE ls \o rs

\* the body of the loop with Node(left.freq, ...) for Node(left.freq + right.freq, ...)
merge_step_left_freq(T, h, joint) ==
    LET p1 == heappop(T, h)
        l == p1[1]
        p2 == heappop(T, p1[2])
        r == p2[1]
        T1 == [T EXCEPT ![l].huff = 0, ![r].huff = 1]
        T2 == Append(T1, Node(T1[l].freq,
                              merged_symbol(joint, T1[l].symbol, T1[r].symbol), l, r))
    IN [tree |-> T2, nodes |-> heappush(T2, p2[2], Len(T2)), left |-> l, right |-> r]

\* one pass of the body of `while len(nodes) > 1`
merge_step(T, h, joint) ==
    LET p1 == heappop(T, h)
        l == p1[1]
        p2 == heappop(T, p1[2])
        r == p2[1]
        T1 == [T EXCEPT ![l].huff = 0, ![r].huff = 1]
        T2 == Append(T1, Node(T1[l].freq + T1[r].freq,
                              merged_symbol(joint, T1[l].symbol, T1[r].symbol), l, r))
    IN [tree |-> T2, nodes |-> heappush(T2, p2[2], Len(T2)), left |-> l, right |-> r]

----------------------------------------------------------------------------
\* extract_huffman_codes(node, code, codes_list): the list afterwards

\* str(node.huff)
str(huff) == IF huff = EmptyHuff THEN <<>> ELSE <<huff>>

RECURSIVE extract_huffman_codes(_, _, _, _)
extract_huffman_codes(T, node, code, codes_list) ==
    LET new_code == code \o str(T[node].huff)
        l1 == IF T[node].left # None
              THEN extract_huffman_codes(T, T[node].left, new_code, codes_list)
              ELSE codes_list
        l2 == IF T[node].right # None
              THEN extract_huffman_codes(T, T[node].right, new_code, l1)
              ELSE l1
    IN IF T[node].left = None /\ T[node].right = None
       THEN Append(l2, <<T[node].symbol, new_code>>)
       ELSE l2

\* generate_huffman_codes / generate_joint_huffman_codes run to the end on a
\* codes_list default that holds dflt: the list returned
RECURSIVE merge_all(_, _, _)
merge_all(T, h, joint) ==
    IF Len(h) > 1
    THEN LET s == merge_step(T, h, joint) IN merge_all(s.tree, s.nodes, joint)
    ELSE [tree |-> T, nodes |-> h]

symbols_of(t, joint) == IF joint THEN PaddedPairs(t) ELSE Chars(t)

generate_codes(t, joint, dflt) ==
    LET f == push_leaves(Counter(symbols_of(t, joint)), 1, <<>>, <<>>)
        s == merge_all(f.tree, f.nodes, joint)
    IN IF s.nodes # <<>>
       THEN extract_huffman_codes(s.tree, s.nodes[1], <<>>, dflt)
       ELSE <<>>

----------------------------------------------------------------------------
\* The numbers returned

NoValue == [num |-> 0, den |-> 0, div |-> 0]

\* for symbol, code in codes: avg_length += (counter[symbol] / n) * len(code)
\* as the numerator over the common denominator n
RECURSIVE weighted_length(_, _)
weighted_length(cs, c) ==
    IF cs = <<>> THEN 0
    ELSE Count(c, Head(cs)[1]) * Len(Head(cs)[2]) + weighted_length(Tail(cs), c)

average_length(cs, c, n) == [num |-> weighted_length(cs, c), den |-> n, div |-> 1]

\* counter[symbol] / n is evaluated once per entry of codes
average_outcome(cs, n) == IF cs # <<>> /\ n = 0 THEN "ZeroDivisionError" ELSE "returned"

\* -sum(prob * log2(prob)) / div with prob = count / m, kept exact:
\* 2^(m * div * result) = num / den with num = m^m and den = prod count^count
RECURSIVE count_powers(_)
count_powers(c) ==
    IF c = <<>> THEN 1 ELSE Pow(Head(c)[2], Head(c)[2]) * count_powers(Tail(c))

entropy_of(c, m, div) == [num |-> Pow(m, m), den |-> count_powers(c), div |-> div]

calculate_first_order_entropy_value(t) == entropy_of(Counter(Chars(t)), Len(t), 1)

calculate_second_order_entropy_value(t) == entropy_of(Counter(Pairs(t)), Len(Pairs(t)), 2)

----------------------------------------------------------------------------
\* Exact arithmetic for arithmetic_encode: fractions in lowest terms

RECURSIVE GCD(_, _)
GCD(a, b) == IF b = 0 THEN a ELSE GCD(b, a % b)

Frac(n, d) == LET g == GCD(IF n < 0 THEN -n ELSE n, d) IN <<n \div g, d \div g>>

FracAdd(x, y) == Frac(x[1] * y[2] + y[1] * x[2], x[2] * y[2])

FracSub(x, y) == Frac(x[1] * y[2] - y[1] * x[2], x[2] * y[2])

FracMul(x, y) == Frac(x[1] * y[1], x[2] * y[2])

FracLess(x, y) == x[1] * y[2] < y[1] * x[2]

Zero == <<0, 1>>

One == <<1, 1>>

Two == <<2, 1>>

Half == <<1, 2>>

\* input_string.count(ch) / len(input_string)
prob(s, ch) == Frac(Cardinality({i \in 1..Len(s) : s[i] = ch}), Len(s))

\* lines 79-84: the interval after one character
narrow(char, lo, hi, cA, cB) ==
    LET current_range == FracSub(hi, lo)
    IN IF char = "A"
       THEN [lower_bound |-> lo,
             upper_bound |-> FracAdd(lo, FracMul(current_range, cA))]
       ELSE LET lo2 == FracAdd(lo, FracMul(current_range, cA))
            IN [lower_bound |-> lo2,
                upper_bound |-> FracAdd(lo2, FracMul(current_range, FracSub(cB, cA)))]

\* line 89 and line 93: the conditions of the two scalings
E1Condition(lo, hi) == FracLess(lo, Half) /\ FracLess(hi, Half)

E2Condition(lo, hi) == ~FracLess(lo, Half) /\ ~FracLess(hi, Half)

RECURSIVE StringsOfLen(_)
StringsOfLen(k) ==
    IF k = 0 THEN {<<>>}
    ELSE {Append(t, c) : t \in StringsOfLen(k - 1), c \in ArithAlphabet}

\* the strings the caller passes
Strings == UNION {StringsOfLen(k) : k \in 0..MaxString}

----------------------------------------------------------------------------
\* The process

GenerateOps == {"generate_huffman_codes", "generate_joint_huffman_codes"}
AverageOps == {"calculate_average_codeword_length",
               "calculate_joint_average_codeword_length"}
JointOps == {"generate_joint_huffman_codes", "calculate_joint_average_codeword_length"}
BuildOps == GenerateOps \cup AverageOps

Init ==
    /\ pc = "idle"
    /\ op = "none"
    /\ text = <<>>
    /\ counter = <<>>
    /\ tree = <<>>
    /\ nodes = <<>>
    /\ left = None
    /\ right = None
    /\ default_codes_list = <<>>
    /\ codes = <<>>
    /\ value = NoValue
    /\ outcome = "none"
    /\ consumed = 0
    /\ ae_pc = "idle"
    /\ input_string = <<>>
    /\ enable_scaling = FALSE
    /\ char_index = 0
    /\ cdf_A = Zero
    /\ cdf_B = Zero
    /\ lower_bound = Zero
    /\ upper_bound = One
    /\ operations = <<>>

\* the texts the caller can pass to the next function
Inputs ==
    IF pc \in {"idle", "done"}
    THEN UNION {TextsByLen[k] : k \in 0..(MaxInput - consumed - 1)}
    ELSE {}

\* the caller passes t to the next function
Called(t) ==
    /\ pc \in {"idle", "done"}
    /\ consumed + Len(t) + 1 <= MaxInput
    /\ consumed' = consumed + Len(t) + 1
    /\ text' = t

\* lines 136-140 and 192-202: the Counter and the heap of leaves
Start(t, o) ==
    /\ Called(t)
    /\ op' = o
    /\ counter' = Counter(symbols_of(t, o \in JointOps))
    /\ LET f == push_leaves(counter', 1, <<>>, <<>>)
       IN /\ tree' = f.tree
          /\ nodes' = f.nodes
    /\ left' = None
    /\ right' = None
    /\ codes' = <<>>
    /\ value' = NoValue
    /\ outcome' = "none"
    /\ pc' = "merge"
    /\ UNCHANGED default_codes_list
    /\ UNCHANGED arith_vars

generate_huffman_codes(t) == Start(t, "generate_huffman_codes")

generate_joint_huffman_codes(t) == Start(t, "generate_joint_huffman_codes")

calculate_average_codeword_length(t) == Start(t, "calculate_average_codeword_length")

calculate_joint_average_codeword_length(t) ==
    Start(t, "calculate_joint_average_codeword_length")

\* lines 142-150 and 204-212: one iteration of the while loop
While ==
    /\ pc = "merge"
    /\ Len(nodes) > 1
    /\ LET s == merge_step(tree, nodes, op \in JointOps)
       IN /\ tree' = s.tree
          /\ nodes' = s.nodes
          /\ left' = s.left
          /\ right' = s.right
    /\ UNCHANGED <<pc, op, text, counter, default_codes_list, codes, value,
                   outcome, consumed>>
    /\ UNCHANGED arith_vars

\* lines 152-156 and 214-218: the loop is over, the codes are extracted into the
\* default list of extract_huffman_codes and returned; calculate_* then
\* averages over the list it got (lines 174-177 and 242-245)
Return ==
    /\ pc = "merge"
    /\ Len(nodes) <= 1
    /\ LET codes_list == IF nodes # <<>>
                         THEN extract_huffman_codes(tree, nodes[1], <<>>, default_codes_list)
                         ELSE <<>>
           n == Len(symbols_of(text, op \in JointOps))
       IN /\ codes' = codes_list
          /\ default_codes_list' = IF nodes # <<>> THEN codes_list ELSE default_codes_list
          /\ value' = IF op \in AverageOps /\ average_outcome(codes_list, n) = "returned"
                      THEN average_length(codes_list, counter, n)
                      ELSE NoValue
          /\ outcome' = IF op \in AverageOps THEN average_outcome(codes_list, n)
                        ELSE "returned"
    /\ pc' = "done"
    /\ UNCHANGED <<op, text, counter, tree, nodes, left, right, consumed>>
    /\ UNCHANGED arith_vars

\* lines 45-53 and 66-76
Entropy(t, o, c, v) ==
    /\ Called(t)
    /\ op' = o
    /\ counter' = c
    /\ value' = v
    /\ outcome' = "returned"
    /\ pc' = "done"
    /\ tree' = <<>>
    /\ nodes' = <<>>
    /\ left' = None
    /\ right' = None
    /\ codes' = <<>>
    /\ UNCHANGED default_codes_list
    /\ UNCHANGED arith_vars

calculate_first_order_entropy(t) ==
    Entropy(t, "calculate_first_order_entropy", Counter(Chars(t)),
            calculate_first_order_entropy_value(t))

calculate_second_order_entropy(t) ==
    Entropy(t, "calculate_second_order_entropy", Counter(Pairs(t)),
            calculate_second_order_entropy_value(t))

Next ==
    \/ \E t \in Inputs : generate_huffman_codes(t)
    \/ \E t \in Inputs : generate_joint_huffman_codes(t)
    \/ \E t \in Inputs : calculate_average_codeword_length(t)
    \/ \E t \in Inputs : calculate_joint_average_codeword_length(t)
    \/ \E t \in Inputs : calculate_first_order_entropy(t)
    \/ \E t \in Inputs : calculate_second_order_entropy(t)
    \/ While
    \/ Return

Spec == Init /\ [][Next]_vars

----------------------------------------------------------------------------
\* The process of arithmetic_encoding.py

\* lines 66-76: the call; len(input_string) = 0 raises at line 71
arithmetic_encode(s, scaling) ==
    /\ ae_pc \in {"idle", "done", "raised"}
    /\ input_string' = s
    /\ enable_scaling' = scaling
    /\ char_index' = 0
    /\ lower_bound' = Zero
    /\ upper_bound' = One
    /\ operations' = <<>>
    /\ IF Len(s) = 0
       THEN /\ ae_pc' = "raised"
            /\ cdf_A' = Zero
            /\ cdf_B' = Zero
       ELSE /\ ae_pc' = "for"
            /\ cdf_A' = prob(s, "A")
            /\ cdf_B' = FracAdd(prob(s, "A"), prob(s, "B"))
    /\ UNCHANGED huffman_vars

\* lines 78-86: the for loop takes the next character
NextChar ==
    /\ ae_pc = "for"
    /\ char_index < Len(input_string)
    /\ LET r == narrow(input_string[char_index + 1], lower_bound, upper_bound,
                       cdf_A, cdf_B)
       IN /\ lower_bound' = r.lower_bound
          /\ upper_bound' = r.upper_bound
    /\ char_index' = char_index + 1
    /\ ae_pc' = IF enable_scaling THEN "while" ELSE "for"
    /\ UNCHANGED <<input_string, enable_scaling, cdf_A, cdf_B, operations>>
    /\ UNCHANGED huffman_vars

\* lines 89-92
E1Scaling ==
    /\ ae_pc = "while"
    /\ Len(operations) < MaxOperations
    /\ E1Condition(lower_bound, upper_bound)
    /\ lower_bound' = FracMul(lower_bound, Two)
    /\ upper_bound' = FracMul(upper_bound, Two)
    /\ operations' = Append(operations, "E1 Scaling")
    /\ UNCHANGED <<ae_pc, input_string, enable_scaling, char_index, cdf_A, cdf_B>>
    /\ UNCHANGED huffman_vars

\* lines 93-96
E2Scaling ==
    /\ ae_pc = "while"
    /\ Len(operations) < MaxOperations
    /\ ~E1Condition(lower_bound, upper_bound)
    /\ E2Condition(lower_bound, upper_bound)
    /\ lower_bound' = FracMul(Two, FracSub(lower_bound, Half))
    /\ upper_bound' = FracMul(Two, FracSub(upper_bound, Half))
    /\ operations' = Append(operations, "E2 Scaling")
    /\ UNCHANGED <<ae_pc, input_string, enable_scaling, char_index, cdf_A, cdf_B>>
    /\ UNCHANGED huffman_vars

\* lines 97-99
NoScaling ==
    /\ ae_pc = "while"
    /\ ~E1Condition(lower_bound, upper_bound)
    /\ ~E2Condition(lower_bound, upper_bound)
    /\ operations' = Append(operations, "No Scaling")
    /\ ae_pc' = "for"
    /\ UNCHANGED <<input_string, enable_scaling, char_index, cdf_A, cdf_B,
                   lower_bound, upper_bound>>
    /\ UNCHANGED huffman_vars

\* line 101
ReturnEncoding ==
    /\ ae_pc = "for"
    /\ char_index = Len(input_string)
    /\ ae_pc' = "done"
    /\ UNCHANGED <<input_string, enable_scaling, char_index, cdf_A, cdf_B,
                   lower_bound, upper_bound, operations>>
    /\ UNCHANGED huffman_vars

NextArith ==
    \/ \E s \in Strings, scaling \in BOOLEAN : arithmetic_encode(s, scaling)
    \/ NextChar
    \/ E1Scaling
    \/ E2Scaling
    \/ NoScaling
    \/ ReturnEncoding

SpecArith == Init /\ [][NextArith]_vars

----------------------------------------------------------------------------
\* Vocabulary of the properties

Returned == pc = "done" /\ outcome = "returned"

Joint == op \in JointOps

\* the distinct symbols of the call, and how many symbols it counted
Distinct == Len(counter)

SymbolCount == Len(symbols_of(text, Joint))

\* iterations of the while loop so far: one Node is created per iteration
Merges == Len(tree) - Distinct

IsLeaf(i) == tree[i].left = None /\ tree[i].right = None

IsPrefix(a, b) == Len(a) <= Len(b) /\ SubSeq(b, 1, Len(a)) = a

\* the codes of the tree the call built, on their own list
TreeCodes == extract_huffman_codes(tree, nodes[1], <<>>, <<>>)

\* x * 2^k < t, without computing 2^k
RECURSIVE TimesPow2Below(_, _, _)
TimesPow2Below(x, k, t) ==
    IF x >= t THEN FALSE
    ELSE IF k = 0 THEN TRUE
    ELSE TimesPow2Below(2 * x, k - 1, t)

----------------------------------------------------------------------------
\* C1: for every non-empty text, two entries of the table returned by
\* generate_huffman_codes or generate_joint_huffman_codes that belong to
\* different symbols never have one code a prefix of the other.
C1_PrefixFree ==
    (Returned /\ op \in BuildOps /\ text # <<>>) =>
        \A i, j \in 1..Len(codes) :
            codes[i][1] # codes[j][1] => ~IsPrefix(codes[i][2], codes[j][2])

\* C2: for a text of n symbols with at least 2 distinct ones, the average L/n
\* returned by calculate_average_codeword_length lies in [H, H + 1) for the
\* order-0 entropy H of the text: n^n <= 2^L * prod c^c < 2^n * n^n.
C2_EntropyBound ==
    (Returned /\ op = "calculate_average_codeword_length"
        /\ Cardinality({text[i] : i \in 1..Len(text)}) >= 2) =>
        LET H == calculate_first_order_entropy_value(text)
            n == Len(text)
            L == value.num
        IN /\ value.den = n
           /\ ~TimesPow2Below(H.den, L, H.num)
           /\ IF L >= n
              THEN TimesPow2Below(H.den, L - n, H.num)
              ELSE ~TimesPow2Below(H.num, n - L, H.den + 1)

\* the code lengths of the binary prefix codes over d symbols, lengths up to d:
\* by Kraft's inequality, the assignments with sum 2^(-len) <= 1
RECURSIVE KraftSum(_, _, _)
KraftSum(ls, i, d) ==
    IF i > Len(ls) THEN 0 ELSE Pow(2, d - ls[i]) + KraftSum(ls, i + 1, d)

PrefixCodeLengths(d) ==
    {ls \in [1..d -> 0..d] : KraftSum(ls, 1, d) <= Pow(2, d)}

RECURSIVE LengthsCost(_, _, _)
LengthsCost(ls, c, i) ==
    IF i > Len(c) THEN 0 ELSE c[i][2] * ls[i] + LengthsCost(ls, c, i + 1)

\* sum of count(s) * len(code(s)) over the codes of the tree
TreeCost == weighted_length(TreeCodes, counter)

\* C3: when the merge loop is over, no binary prefix code over the distinct
\* symbols of the text has a smaller sum of count(s) * len(code(s)) than the
\* codes of the tree the loop built.
C3_MinimumWeightedPathLength ==
    (pc = "done" /\ op \in BuildOps /\ nodes # <<>>) =>
        \A ls \in PrefixCodeLengths(Distinct) :
            TreeCost <= LengthsCost(ls, counter, 1)

\* a call on three or more symbols of unequal counts whose tree beats the
\* fixed-length code
C3_Witness ==
    /\ pc = "done"
    /\ op \in BuildOps
    /\ Distinct >= 3
    /\ \E i, j \in 1..Distinct : counter[i][2] # counter[j][2]
    /\ \E ls \in PrefixCodeLengths(Distinct) : TreeCost < LengthsCost(ls, counter, 1)
    /\ TreeCost < 2 * SymbolCount

\* C4: a call of generate_huffman_codes or generate_joint_huffman_codes returns
\* the table it would return as the first call of the process, and
\* calculate_*_average_codeword_length the average over that table, whatever
\* calls came before.
C4_SelfContained ==
    (Returned /\ op \in BuildOps) =>
        LET first == generate_codes(text, Joint, <<>>)
        IN /\ codes = first
           /\ op \in AverageOps => value = average_length(first, counter, SymbolCount)

\* C5: a call on the empty text does not return a value: it fails with
\* EmptyInputError.
C5_EmptyTextRejected ==
    (pc = "done" /\ text = <<>>) => outcome = "EmptyInputError"

\* C6: nodes of equal frequency leave the forest in the order they were
\* inserted: after each iteration, left was inserted before right if their
\* frequencies are equal, and no node still in the forest has the frequency of
\* left or right and was inserted before it.
C6_TiesInInsertionOrder ==
    (pc = "merge" /\ left # None) =>
        /\ tree[left].freq = tree[right].freq => left < right
        /\ \A k \in 1..Len(nodes) :
              /\ tree[nodes[k]].freq = tree[left].freq => left < nodes[k]
              /\ tree[nodes[k]].freq = tree[right].freq => right < nodes[k]

\* C7: for a non-empty text with one distinct symbol s, no merge happens, the
\* leaf is the root and has no code digit, the table returned is exactly
\* {s: ""} and the average returned is 0; and a table holds a code of length 0
\* only in that case.
C7_DegenerateAlphabet ==
    (Returned /\ op \in {"generate_huffman_codes", "calculate_average_codeword_length"}) =>
        /\ Cardinality({text[i] : i \in 1..Len(text)}) = 1 =>
              /\ Merges = 0
              /\ nodes = <<1>>
              /\ tree[1].huff = EmptyHuff
              /\ codes = << <<Chars(text)[1], <<>> >> >>
              /\ op \in AverageOps => value.num = 0 /\ value.den = Len(text)
        /\ (\E i \in 1..Len(codes) : codes[i][2] = <<>>) =>
              Cardinality({text[i] : i \in 1..Len(text)}) = 1

\* links from a parent to node x
ParentLinks(x) ==
    {<<p, side>> \in (1..Len(tree)) \X {"left", "right"} :
        IF side = "left" THEN tree[p].left = x ELSE tree[p].right = x}

\* C8: in every state of the construction, every node has 0 or 2 children, an
\* internal node's frequency is the sum of its children's, the leaves are the
\* distinct symbols of the input, one leaf each with the symbol's count, and no
\* node is the child of more than one parent.
C8_TreeWellFormed ==
    /\ \A i \in 1..Len(tree) :
          /\ (tree[i].left = None) <=> (tree[i].right = None)
          /\ ~IsLeaf(i) =>
                /\ tree[i].left \in 1..(i - 1)
                /\ tree[i].right \in 1..(i - 1)
                /\ tree[i].left # tree[i].right
                /\ tree[i].freq = tree[tree[i].left].freq + tree[tree[i].right].freq
          /\ IsLeaf(i) <=> i <= Distinct
          /\ Cardinality(ParentLinks(i)) <= 1
    /\ Len(tree) > 0 =>
          /\ \A i \in 1..Distinct :
                /\ tree[i].symbol = counter[i][1]
                /\ tree[i].freq = counter[i][2]
                /\ tree[i].freq =
                      Cardinality({k \in 1..SymbolCount :
                                       symbols_of(text, Joint)[k] = tree[i].symbol})
                /\ tree[i].freq >= 1
          /\ \A i, j \in 1..Distinct : i # j => tree[i].symbol # tree[j].symbol

\* inside the loop, after a merge, with more merges to come
C8_Witness ==
    /\ pc = "merge"
    /\ Merges >= 2
    /\ Len(nodes) > 1
    /\ \E k \in 1..Len(nodes) : ~IsLeaf(nodes[k])

\* each iteration so far took the two lowest nodes, left first, labelled them
\* 0 and 1 and inserted their parent; the forest shrinks by one per iteration
C9_Steps ==
    /\ Len(nodes) = Distinct - Merges
    /\ left # None =>
          /\ tree[left].huff = 0
          /\ tree[right].huff = 1
          /\ tree[left].freq <= tree[right].freq
          /\ \A k \in 1..Len(nodes) : tree[right].freq <= tree[nodes[k]].freq
          /\ tree[Len(tree)].left = left
          /\ tree[Len(tree)].right = right
          /\ \E k \in 1..Len(nodes) : nodes[k] = Len(tree)
          /\ \A k \in 1..Len(nodes) : nodes[k] \notin {left, right}
    /\ (left = None) <=> (Merges = 0)

\* the loop is over: d - 1 iterations, and the one node left is the root
C9_Terminal(rootfreq) ==
    /\ Merges = Distinct - 1
    /\ nodes = <<Len(tree)>>
    /\ ParentLinks(nodes[1]) = {}
    /\ tree[nodes[1]].freq = rootfreq

\* C9 as stated: for d >= 1 distinct symbols the loop ends after exactly d - 1
\* iterations of the kind above, with one node whose frequency is the length
\* of the text.
C9_RootFrequencyIsTextLength ==
    (pc \in {"merge", "done"} /\ op \in BuildOps /\ Distinct >= 1) =>
        /\ C9_Steps
        /\ (pc = "done" \/ Len(nodes) <= 1) => C9_Terminal(Len(text))

\* C9 as amended: the frequency of the root is the number of symbols counted,
\* the length of the text in generate_huffman_codes and the number of pairs in
\* generate_joint_huffman_codes.
C9_MergeLoopTerminates ==
    (pc \in {"merge", "done"} /\ op \in BuildOps /\ Distinct >= 1) =>
        /\ C9_Steps
        /\ (pc = "done" \/ Len(nodes) <= 1) => C9_Terminal(SymbolCount)

\* a joint call over, after two or more iterations, on a text longer than its
\* number of pairs
C9_Witness ==
    /\ pc = "done"
    /\ Joint
    /\ Merges >= 2
    /\ Merges = Distinct - 1
    /\ tree[nodes[1]].freq < Len(text)

\* number of distinct pairs, count of each in order of first occurrence, and
\* number of pairs
Distribution(pairs) ==
    LET c == Counter(pairs)
    IN <<Len(c), [i \in 1..Len(c) |-> c[i][2]], Len(pairs)>>

\* C10: the pair distribution calculate_second_order_entropy sums over is the
\* one generate_joint_huffman_codes builds its leaves from, odd-length texts
\* included.
C10_SameJointModel ==
    (Returned /\ op = "calculate_second_order_entropy") =>
        <<Len(counter), [i \in 1..Len(counter) |-> counter[i][2]], Len(Pairs(text))>>
            = Distribution(PaddedPairs(text))

\* C11: arithmetic_encode(input_string, enable_scaling=True) terminates for every
\* non-empty string.  Each E1 or E2 pass of the while loop doubles the width of
\* the interval, which lies in [0, 1]: the passes after a character are finitely
\* many exactly when the loop is entered with an interval of positive width; an
\* interval of width 0 lies wholly on one side of 0.5 after every pass and the
\* loop never reaches "No Scaling".
C11_ScalingLoopTerminates ==
    (ae_pc = "while" /\ input_string # <<>>) =>
        /\ ~FracLess(lower_bound, Zero)
        /\ FracLess(lower_bound, upper_bound)
        /\ ~FracLess(One, upper_bound)

====
